---- MODULE Spec2Model ----
(***************************************************************************)
(* The reputation aggregation engine of server/main.py: the JSON document  *)
(* reports.json ({reports, reputation}), the handlers that load it, change *)
(* it in memory and write it back, and the confidence classification.      *)
(*                                                                         *)
(* Every handler is an `async def` whose body holds no await: on the       *)
(* single event loop it runs from its load to its return without another   *)
(* handler interleaving, so each handler is one action.                    *)
(***************************************************************************)
EXTENDS Integers, Sequences, FiniteSets, TLC

VARIABLES
    file,      \* the parsed content of REPORTS_FILE: [reports, reputation]
    data,      \* the dict `data` of the POST handler that ran last, as it returned
    last,      \* the POST request that ran last, its I/O outcomes and its response
    now,       \* datetime.now(), counted in requests served
    acked,     \* per aggregate key, how many submit_report calls returned success
    probe,     \* an application of calculate_confidence_level: [n, avg, level]
    view       \* the response being returned to a GET or to a rejected POST

vars == <<file, data, last, now, acked, probe, view>>

-----------------------------------------------------------------------------
(* Bounds of the exploration *)

\* requests served after the initial history
MaxOps == 3
\* largest report_count given to calculate_confidence_level on its own
MaxProbeCount == 11
\* POST requests served after the initial history where GETs are explored too
MaxFullOps == 1

\* lengths of the initial history: that many reports of SeedReport were
\* submitted (and saved) before the explored requests
SeedCounts == {0, 4, 9}

-----------------------------------------------------------------------------
(* Values *)

\* Field(..., ge=0, le=100)
MinRisk == 0
MaxRisk == 100

\* usernames are strings: sequences of characters
Foo == <<"F", "o", "o">>
FOO == <<"F", "O", "O">>
foo == <<"f", "o", "o">>
Bob == <<"B", "o", "b">>
Usernames == {Foo, foo, Bob}

\* pattern="^(bullet|blitz|rapid)$"
Formats == {"bullet", "blitz", "rapid"}

\* the report submissions explored: <<username, risk_score, game_format>>
Requests ==
    {<<Foo, 90, "blitz">>, <<Foo, 50, "rapid">>,
     <<foo, 50, "bullet">>, <<foo, 90, "rapid">>,
     <<Bob, 50, "blitz">>, <<Bob, 90, "bullet">>}

\* the order low < medium < high < confirmed
Rank(l) == CASE l = "low" -> 0 [] l = "medium" -> 1 [] l = "high" -> 2 [] l = "confirmed" -> 3

\* str.lower() on one character
LowerChar(c) ==
    CASE c = "A" -> "a" [] c = "B" -> "b" [] c = "C" -> "c" [] c = "D" -> "d"
      [] c = "E" -> "e" [] c = "F" -> "f" [] c = "G" -> "g" [] c = "H" -> "h"
      [] c = "I" -> "i" [] c = "J" -> "j" [] c = "K" -> "k" [] c = "L" -> "l"
      [] c = "M" -> "m" [] c = "N" -> "n" [] c = "O" -> "o" [] c = "P" -> "p"
      [] c = "Q" -> "q" [] c = "R" -> "r" [] c = "S" -> "s" [] c = "T" -> "t"
      [] c = "U" -> "u" [] c = "V" -> "v" [] c = "W" -> "w" [] c = "X" -> "x"
      [] c = "Y" -> "y" [] c = "Z" -> "z" [] OTHER -> c

\* the username kept as it was sent
Lower_identity(s) == s

\* str.lower()
Lower(s) == [i \in 1..Len(s) |-> LowerChar(s[i])]

-----------------------------------------------------------------------------
(* Averages: sum(rep["risk_scores"]) / len(rep["risk_scores"]) is kept as   *)
(* the exact fraction in lowest terms, so that equal averages are equal     *)
(* values and a comparison with a threshold is the comparison of the code.  *)
(* The sums are whole numbers, which Python's floats hold exactly; the      *)
(* float the division returns is FloatDiv of the fraction (below).          *)

RECURSIVE Gcd(_, _)
Gcd(a, b) == IF b = 0 THEN a ELSE Gcd(b, a % b)

Rat(num, den) == LET g == Gcd(num, den) IN [num |-> num \div g, den |-> den \div g]

\* avg >= k, for a whole number k
RatGeq(avg, k) == avg.num >= k * avg.den

\* a <= b
RatLeq(a, b) == a.num * b.den <= b.num * a.den

RECURSIVE SumSeq(_)
SumSeq(s) == IF s = <<>> THEN 0 ELSE s[1] + SumSeq(Tail(s))

\* the floor division // where the code has /
Mean_floor(scores) == Rat(SumSeq(scores) \div Len(scores), 1)

\* sum(rep["risk_scores"]) / len(rep["risk_scores"])
Mean(scores) == Rat(SumSeq(scores), Len(scores))

-----------------------------------------------------------------------------
(* Python floats (IEEE 754 binary64). The fraction kept for an average      *)
(* names the float the division of the code returns: the float nearest to   *)
(* it, ties to even. A float is [hi, mid, lo, exp]: its 53-bit mantissa is  *)
(* cut in three limbs of 18, 18 and 17 bits (hi holds the leading 1) and    *)
(* its value is (hi * 2^35 + mid * 2^17 + lo) * 2^exp; zero has the limbs 0.*)

\* the limbs of the mantissa of binary64: 18 + 18 + 17 = 53 bits
HiLimb == 262144
MidLimb == 262144
LoLimb == 131072

RECURSIVE Pow2(_)
Pow2(k) == IF k = 0 THEN 1 ELSE 2 * Pow2(k - 1)

FloatZero == [hi |-> 0, mid |-> 0, lo |-> 0, exp |-> 0]

\* the mantissa plus one unit in the last place
FloatUp(hi, mid, lo, exp) ==
    IF lo + 1 < LoLimb THEN [hi |-> hi, mid |-> mid, lo |-> lo + 1, exp |-> exp]
    ELSE IF mid + 1 < MidLimb THEN [hi |-> hi, mid |-> mid + 1, lo |-> 0, exp |-> exp]
    ELSE IF hi + 1 < HiLimb THEN [hi |-> hi + 1, mid |-> 0, lo |-> 0, exp |-> exp]
    ELSE [hi |-> HiLimb \div 2, mid |-> 0, lo |-> 0, exp |-> exp + 1]

\* round to nearest, ties to even: the rest dropped below the mantissa is
\* rest / whole of a unit in the last place
FloatNearest(hi, mid, lo, exp, rest, whole) ==
    IF 2 * rest > whole \/ (2 * rest = whole /\ lo % 2 = 1)
    THEN FloatUp(hi, mid, lo, exp)
    ELSE [hi |-> hi, mid |-> mid, lo |-> lo, exp |-> exp]

\* num / den with num scaled by 2^t, t grown or shrunk until the quotient
\* has its leading 1 in the top bit of the hi limb
RECURSIVE DivScaled(_, _, _)
DivScaled(num, den, t) ==
    IF num \div den >= HiLimb THEN DivScaled(num \div 2, den, t - 1)
    ELSE IF num \div den < HiLimb \div 2 THEN DivScaled(2 * num, den, t + 1)
    ELSE LET hi == num \div den
             r1 == (num % den) * MidLimb
             mid == r1 \div den
             r2 == (r1 % den) * LoLimb
             lo == r2 \div den
         IN FloatNearest(hi, mid, lo, 0 - t - 35, r2 % den, den)

\* float(num) / float(den) for natural numbers below 2^18, den > 0: the
\* division of sum(rep["risk_scores"]) by len(rep["risk_scores"])
FloatDiv(num, den) == IF num = 0 THEN FloatZero ELSE DivScaled(num, den, 0)

\* float(k)
FloatOfInt(k) == FloatDiv(k, 1)

\* how many bits the natural number h has above the hi limb
RECURSIVE Excess(_)
Excess(h) == IF h < HiLimb THEN 0 ELSE 1 + Excess(h \div 2)

\* x * k of Python, for a float x and a natural number k (0 < k < 2^12)
FloatTimesInt(x, k) ==
    LET l == x.lo * k
        m == x.mid * k + l \div LoLimb
        h == x.hi * k + m \div MidLimb
        l0 == l % LoLimb
        m0 == m % MidLimb
        d == Excess(h)
        p == Pow2(d)
    IN IF x = FloatZero THEN FloatZero
       ELSE FloatNearest(h \div p,
                         m0 \div p + (h % p) * (MidLimb \div p),
                         l0 \div p + (m0 % p) * (LoLimb \div p),
                         x.exp + d, l0 % p, p)

-----------------------------------------------------------------------------
(* calculate_confidence_level *)

ConfirmedReports == 10
ConfirmedRisk == 80
HighReports == 5
HighRisk == 70
MediumReports == 3
MediumRisk == 60

\* a strict comparison where the code has >=
calculate_confidence_level_strict(report_count, avg_risk) ==
    IF report_count >= ConfirmedReports /\ RatGeq(avg_risk, ConfirmedRisk) THEN "confirmed"
    ELSE IF report_count >= HighReports /\ RatGeq(avg_risk, HighRisk) THEN "high"
    ELSE IF report_count > MediumReports /\ RatGeq(avg_risk, MediumRisk) THEN "medium"
    ELSE "low"

\* an equality where the code has >=
calculate_confidence_level_exact(report_count, avg_risk) ==
    IF report_count = ConfirmedReports /\ RatGeq(avg_risk, ConfirmedRisk) THEN "confirmed"
    ELSE IF report_count >= HighReports /\ RatGeq(avg_risk, HighRisk) THEN "high"
    ELSE IF report_count >= MediumReports /\ RatGeq(avg_risk, MediumRisk) THEN "medium"
    ELSE "low"

calculate_confidence_level(report_count, avg_risk) ==
    IF report_count >= ConfirmedReports /\ RatGeq(avg_risk, ConfirmedRisk) THEN "confirmed"
    ELSE IF report_count >= HighReports /\ RatGeq(avg_risk, HighRisk) THEN "high"
    ELSE IF report_count >= MediumReports /\ RatGeq(avg_risk, MediumRisk) THEN "medium"
    ELSE "low"

-----------------------------------------------------------------------------
(* The store *)

\* {"reports": [], "reputation": {}}
EmptyState == [reports |-> <<>>, reputation |-> <<>>]

\* load_reports: the document, or the empty state when reading or parsing it raises
load_reports(f, readOk) == IF readOk THEN f ELSE EmptyState

\* the content of REPORTS_FILE after save_reports(d): d, or what it was when
\* write_text raises (save_reports prints the exception and returns normally)
save_reports(f, d, writeOk) == IF writeOk THEN d ELSE f

-----------------------------------------------------------------------------
(* submit_report *)

\* report.model_dump() with the timestamp set
ReportDict(username, risk_score, game_format, timestamp) ==
    [username |-> username, risk_score |-> risk_score,
     game_format |-> game_format, timestamp |-> timestamp]

\* the aggregate created with its first report already counted
NewAggregate_counted(report) ==
    [username |-> report.username,
     total_reports |-> 1,
     risk_scores |-> <<>>,
     formats |-> <<>>,
     first_reported |-> report.timestamp,
     last_reported |-> report.timestamp,
     is_banned |-> FALSE]

\* the aggregate created for a username seen for the first time
NewAggregate(report) ==
    [username |-> report.username,
     total_reports |-> 0,
     risk_scores |-> <<>>,
     formats |-> <<>>,
     first_reported |-> report.timestamp,
     last_reported |-> report.timestamp,
     is_banned |-> FALSE]

\* the count set to 1 instead of incremented
BumpFormat_reset(formats, format_key) ==
    [g \in DOMAIN formats \cup {format_key} |-> IF g = format_key THEN 1 ELSE formats[g]]

\* rep["formats"].get(format_key, 0) + 1
BumpFormat(formats, format_key) ==
    [g \in DOMAIN formats \cup {format_key} |->
        IF g = format_key
        THEN (IF g \in DOMAIN formats THEN formats[g] ELSE 0) + 1
        ELSE formats[g]]

\* the display username overwritten by every report
Fold_latest(rep, report) ==
    LET scores == Append(rep.risk_scores, report.risk_score)
        total == rep.total_reports + 1
        avg == Mean(scores)
    IN [username |-> report.username,
        total_reports |-> total,
        risk_scores |-> scores,
        formats |-> BumpFormat(rep.formats, report.game_format),
        first_reported |-> rep.first_reported,
        last_reported |-> report.timestamp,
        is_banned |-> rep.is_banned,
        average_risk_score |-> avg,
        confidence_level |-> calculate_confidence_level(total, avg)]

\* a level of confirmed kept instead of recomputed
Fold_sticky(rep, report) ==
    LET scores == Append(rep.risk_scores, report.risk_score)
        total == rep.total_reports + 1
        avg == Mean(scores)
    IN [username |-> rep.username,
        total_reports |-> total,
        risk_scores |-> scores,
        formats |-> BumpFormat(rep.formats, report.game_format),
        first_reported |-> rep.first_reported,
        last_reported |-> report.timestamp,
        is_banned |-> rep.is_banned,
        average_risk_score |-> avg,
        confidence_level |->
            IF "confidence_level" \in DOMAIN rep /\ rep.confidence_level = "confirmed"
            THEN "confirmed"
            ELSE calculate_confidence_level(total, avg)]

\* first_reported overwritten like last_reported
Fold_first(rep, report) ==
    LET scores == Append(rep.risk_scores, report.risk_score)
        total == rep.total_reports + 1
        avg == Mean(scores)
    IN [username |-> rep.username,
        total_reports |-> total,
        risk_scores |-> scores,
        formats |-> BumpFormat(rep.formats, report.game_format),
        first_reported |-> report.timestamp,
        last_reported |-> report.timestamp,
        is_banned |-> rep.is_banned,
        average_risk_score |-> avg,
        confidence_level |-> calculate_confidence_level(total, avg)]

\* the fold of one report into its aggregate
Fold(rep, report) ==
    LET scores == Append(rep.risk_scores, report.risk_score)
        total == rep.total_reports + 1
        avg == Mean(scores)
    IN [username |-> rep.username,
        total_reports |-> total,
        risk_scores |-> scores,
        formats |-> BumpFormat(rep.formats, report.game_format),
        first_reported |-> rep.first_reported,
        last_reported |-> report.timestamp,
        is_banned |-> rep.is_banned,
        average_risk_score |-> avg,
        confidence_level |-> calculate_confidence_level(total, avg)]

\* `data` after the body of submit_report, before save_reports
SubmitData(d, report) ==
    LET username == Lower(report.username)
        rep == IF username \in DOMAIN d.reputation
               THEN d.reputation[username]
               ELSE NewAggregate(report)
    IN [reports |-> Append(d.reports, report),
        reputation |-> [k \in DOMAIN d.reputation \cup {username} |->
                           IF k = username THEN Fold(rep, report) ELSE d.reputation[k]]]

-----------------------------------------------------------------------------
(* mark_player_banned *)

\* the level recomputed from the totals when the ban is lifted
MarkBannedData_recompute(d, username_lower, banned) ==
    [d EXCEPT !.reputation[username_lower] =
        [@ EXCEPT !.is_banned = banned,
                  !.confidence_level =
                      IF banned THEN "confirmed"
                      ELSE calculate_confidence_level(
                               d.reputation[username_lower].total_reports,
                               d.reputation[username_lower].average_risk_score)]]

\* `data` after the two assignments of mark_player_banned
MarkBannedData(d, username_lower, banned) ==
    [d EXCEPT !.reputation[username_lower] =
        [@ EXCEPT !.is_banned = banned,
                  !.confidence_level = IF banned THEN "confirmed" ELSE @]]

-----------------------------------------------------------------------------
(* Responses *)

\* HTTPException(status_code=..., detail=...)
HTTPException(status_code, detail) == [status |-> status_code, detail |-> detail]

\* str(e) of an HTTPException: "<status_code>: <detail>"
StrOfException(e) == <<e.status, e.detail>>

\* `except Exception as e: raise HTTPException(status_code=500, detail=str(e))`
\* around the body of mark_player_banned: HTTPException is an Exception, so the
\* 404 raised inside the try block is caught here too
MarkBannedExcept(e) == HTTPException(500, StrOfException(e))

\* no request served yet
NoRequest ==
    [op |-> "none", username |-> <<>>, key |-> <<>>, banned |-> FALSE,
     readOk |-> TRUE, write |-> "none", found |-> FALSE,
     prevLevel |-> "none", prevBanned |-> FALSE,
     status |-> 0, detail |-> <<>>,
     total_reports |-> 0, confidence_level |-> "none"]

-----------------------------------------------------------------------------
(* Initial states: the server starts on the document a history of           *)
(* SeedCounts reports of one player left behind (none: the document written *)
(* when reports.json does not exist).                                       *)

Keys == {Lower(u) : u \in Usernames}

SeedReport == ReportDict(foo, 90, "blitz", 0)

RECURSIVE Seeded(_)
Seeded(k) == IF k = 0 THEN EmptyState ELSE SubmitData(Seeded(k - 1), SeedReport)

NoProbe == [n |-> 0, avg |-> Rat(0, 1), level |-> "none", prev |-> "none"]

\* no response on its way
NoView == [op |-> "none"]

Init ==
    /\ \E k \in SeedCounts :
          /\ file = Seeded(k)
          /\ acked = [key \in Keys |-> IF key = Lower(SeedReport.username) THEN k ELSE 0]
    /\ data = file
    /\ last = NoRequest
    /\ now = 0
    /\ probe = NoProbe
    /\ view = NoView

-----------------------------------------------------------------------------
(* Handlers *)

\* POST /api/reports/submit; the request carries no timestamp, so the handler
\* stamps it with datetime.now(). save_reports swallows a failed write, so the
\* handler returns its success body whatever the write did.
submit_report(username, risk_score, game_format, readOk, writeOk) ==
    /\ now < MaxOps
    /\ LET loaded == load_reports(file, readOk)
           report == ReportDict(username, risk_score, game_format, now + 1)
           key == Lower(username)
           d == SubmitData(loaded, report)
           rep == d.reputation[key]
           found == key \in DOMAIN loaded.reputation
       IN /\ data' = d
          /\ file' = save_reports(file, d, writeOk)
          /\ acked' = [acked EXCEPT ![key] = @ + 1]
          /\ last' = [op |-> "submit_report", username |-> username, key |-> key,
                      banned |-> FALSE, readOk |-> readOk,
                      write |-> IF writeOk THEN "ok" ELSE "failed",
                      found |-> found,
                      prevLevel |-> IF found THEN loaded.reputation[key].confidence_level
                                    ELSE "none",
                      prevBanned |-> IF found THEN loaded.reputation[key].is_banned
                                     ELSE FALSE,
                      status |-> 200, detail |-> <<>>,
                      total_reports |-> rep.total_reports,
                      confidence_level |-> rep.confidence_level]
    /\ now' = now + 1
    /\ UNCHANGED <<probe, view>>

\* POST /api/admin/mark-banned/{username}. The not-found branch leaves before
\* save_reports, so no write is attempted there (writeOk is not consulted).
mark_player_banned(username, banned, readOk, writeOk) ==
    /\ now < MaxOps
    /\ LET loaded == load_reports(file, readOk)
           username_lower == Lower(username)
           found == username_lower \in DOMAIN loaded.reputation
           base == [op |-> "set_banned", username |-> username, key |-> username_lower,
                    banned |-> banned, readOk |-> readOk, write |-> "none",
                    found |-> found,
                    prevLevel |-> IF found
                                  THEN loaded.reputation[username_lower].confidence_level
                                  ELSE "none",
                    prevBanned |-> IF found
                                   THEN loaded.reputation[username_lower].is_banned
                                   ELSE FALSE,
                    status |-> 200, detail |-> <<>>,
                    total_reports |-> 0, confidence_level |-> "none"]
       IN IF ~found
          THEN LET e == MarkBannedExcept(HTTPException(404, "Player not found"))
               IN /\ writeOk
                  /\ data' = loaded
                  /\ last' = [base EXCEPT !.status = e.status, !.detail = e.detail]
                  /\ UNCHANGED file
          ELSE LET d == MarkBannedData(loaded, username_lower, banned)
               IN /\ data' = d
                  /\ file' = save_reports(file, d, writeOk)
                  /\ last' = [base EXCEPT !.write = IF writeOk THEN "ok" ELSE "failed"]
    /\ now' = now + 1
    /\ UNCHANGED <<acked, probe, view>>

Next ==
    \/ \E r \in Requests, readOk \in BOOLEAN, writeOk \in BOOLEAN :
          submit_report(r[1], r[2], r[3], readOk, writeOk)
    \/ \E username \in Usernames, banned \in BOOLEAN,
          readOk \in BOOLEAN, writeOk \in BOOLEAN :
          mark_player_banned(username, banned, readOk, writeOk)

Spec == Init /\ [][Next]_vars

-----------------------------------------------------------------------------
(* calculate_confidence_level on its own: the initial states draw a report  *)
(* count and an average, Classify applies the function to them, Reclassify  *)
(* applies it again to a count and an average that are no smaller.          *)

\* the averages tried: MinRisk, MaxRisk and every half point around the thresholds
ProbeAvgs ==
    {Rat(MinRisk, 1), Rat(MaxRisk, 1)}
        \cup {Rat(x, 2) : x \in (2 * MediumRisk - 2)..(2 * ConfirmedRisk + 2)}

InitClassify ==
    /\ file = EmptyState
    /\ data = EmptyState
    /\ last = NoRequest
    /\ now = 0
    /\ acked = [key \in Keys |-> 0]
    /\ view = NoView
    /\ \E n \in 0..MaxProbeCount, avg \in ProbeAvgs :
          probe = [n |-> n, avg |-> avg, level |-> "none", prev |-> "none"]

Classify ==
    /\ probe.level = "none"
    /\ probe' = [probe EXCEPT !.level = calculate_confidence_level(probe.n, probe.avg)]
    /\ UNCHANGED <<file, data, last, now, acked, view>>

Reclassify(n, avg) ==
    /\ probe.level # "none"
    /\ probe.n <= n
    /\ RatLeq(probe.avg, avg)
    /\ probe' = [n |-> n, avg |-> avg,
                 level |-> calculate_confidence_level(n, avg), prev |-> probe.level]
    /\ UNCHANGED <<file, data, last, now, acked, view>>

NextClassify ==
    \/ Classify
    \/ \E n \in 0..MaxProbeCount, avg \in ProbeAvgs : Reclassify(n, avg)

SpecClassify == InitClassify /\ [][NextClassify]_vars

-----------------------------------------------------------------------------
(* Validation of the request body: FastAPI builds the PlayerReport before   *)
(* it calls submit_report and answers 422 itself when a Field fails. A       *)
(* request is <<username, risk_score, game_format, notes>>, the notes held   *)
(* as their length.                                                          *)

MinUsername == 2
MaxUsername == 25
MaxNotes == 500

\* risk_score without its upper bound
Valid_unbounded(username, risk_score, game_format, notes) ==
    /\ Len(username) >= MinUsername /\ Len(username) <= MaxUsername
    /\ risk_score >= MinRisk
    /\ game_format \in Formats
    /\ notes <= MaxNotes

\* the Field constraints of PlayerReport
Valid(username, risk_score, game_format, notes) ==
    /\ Len(username) >= MinUsername /\ Len(username) <= MaxUsername
    /\ risk_score >= MinRisk /\ risk_score <= MaxRisk
    /\ game_format \in Formats
    /\ notes <= MaxNotes

\* HTTP 422 Unprocessable Entity
Unprocessable == 422

\* the bodies posted: those of Requests without notes, and one per Field
\* constraint that fails it
Posts ==
    {<<r[1], r[2], r[3], 0>> : r \in Requests}
        \cup {<<Foo, MaxRisk + 1, "blitz", 0>>,
              <<Foo, MinRisk - 1, "blitz", 0>>,
              <<Foo, 50, "classical", 0>>,
              <<Foo, 50, "blitz", MaxNotes + 1>>,
              <<[i \in 1..(MinUsername - 1) |-> "x"], 50, "blitz", 0>>,
              <<[i \in 1..(MaxUsername + 1) |-> "x"], 50, "blitz", 0>>}

-----------------------------------------------------------------------------
(* The GET handlers *)

\* round(x, 2) of an average, in hundredths: to nearest, a tie to even. (The
\* only ties among averages of fewer than 40 whole scores are eighths, which
\* floats hold exactly.)
Round2(avg) ==
    LET q == (100 * avg.num) \div avg.den
        r == (100 * avg.num) % avg.den
    IN IF 2 * r > avg.den \/ (2 * r = avg.den /\ q % 2 = 1)
       THEN Rat(q + 1, 100)
       ELSE Rat(q, 100)

\* data["reputation"].items(): a dict iterates in insertion order, the JSON
\* document keeps it, and submit_report inserts a key when it appends the
\* first report for it: the keys in the order of their first report
RECURSIVE InsertionOrder(_, _)
InsertionOrder(reports, seen) ==
    IF reports = <<>> THEN <<>>
    ELSE LET k == Lower(Head(reports).username)
         IN IF k \in seen THEN InsertionOrder(Tail(reports), seen)
            ELSE <<k>> \o InsertionOrder(Tail(reports), seen \cup {k})

Items(d) == InsertionOrder(d.reports, {})

\* the sort without reverse=True
InsertDesc_ascending(x, sorted) ==
    LET n == Cardinality({i \in 1..Len(sorted) :
                              sorted[i].total_reports <= x.total_reports})
    IN SubSeq(sorted, 1, n) \o <<x>> \o SubSeq(sorted, n + 1, Len(sorted))

\* list.sort(key=total_reports, reverse=True) is stable: an entry goes behind
\* the entries before it that have as many reports or more
InsertDesc(x, sorted) ==
    LET n == Cardinality({i \in 1..Len(sorted) :
                              sorted[i].total_reports >= x.total_reports})
    IN SubSeq(sorted, 1, n) \o <<x>> \o SubSeq(sorted, n + 1, Len(sorted))

RECURSIVE SortDesc(_)
SortDesc(results) ==
    IF results = <<>> THEN <<>>
    ELSE InsertDesc(results[Len(results)], SortDesc(SubSeq(results, 1, Len(results) - 1)))

\* results[:limit]
Take(results, limit) ==
    SubSeq(results, 1, IF limit < Len(results) THEN limit ELSE Len(results))

\* the filter with > where the code has >= on the report count
Matches_strict(rep, min_reports, min_risk_score, confidence) ==
    /\ rep.total_reports > min_reports
    /\ RatGeq(rep.average_risk_score, min_risk_score)
    /\ confidence = "none" \/ rep.confidence_level = confidence

\* the three `continue` tests of the search loop; confidence "none" is None
Matches(rep, min_reports, min_risk_score, confidence) ==
    /\ ~(rep.total_reports < min_reports)
    /\ RatGeq(rep.average_risk_score, min_risk_score)
    /\ ~(confidence # "none" /\ rep.confidence_level # confidence)

SearchEntry(rep) ==
    [username |-> rep.username,
     total_reports |-> rep.total_reports,
     average_risk_score |-> Round2(rep.average_risk_score),
     confidence_level |-> rep.confidence_level,
     last_reported |-> rep.last_reported,
     is_banned |-> rep.is_banned]

\* the body returned by search_suspicious_players on the document d
SearchResponse(d, min_reports, min_risk_score, confidence, limit) ==
    LET keys == SelectSeq(Items(d),
                    LAMBDA k : Matches(d.reputation[k], min_reports,
                                       min_risk_score, confidence))
        results == SortDesc([i \in 1..Len(keys) |-> SearchEntry(d.reputation[keys[i]])])
    IN [total_found |-> Len(results), players |-> Take(results, limit)]

\* is_banned left out of the count
ConfirmedCount_level(d) ==
    Cardinality({k \in DOMAIN d.reputation :
                    d.reputation[k].confidence_level = "confirmed"})

\* confirmed_count of get_global_statistics
ConfirmedCount(d) ==
    Cardinality({k \in DOMAIN d.reputation :
                    \/ d.reputation[k].confidence_level = "confirmed"
                    \/ d.reputation[k].is_banned})

TopEntry(rep) ==
    [username |-> rep.username,
     total_reports |-> rep.total_reports,
     average_risk_score |-> Round2(rep.average_risk_score),
     confidence_level |-> rep.confidence_level]

\* top_players[:10]
TopLimit == 10

\* the values of min_reports, min_risk_score, confidence and limit searched
\* with; 3, 60 and 100 are the defaults
MinReportsValues == {1, 3, 5}
MinRiskValues == {0, 60, 80}
ConfidenceValues == {"none", "low", "confirmed"}
LimitValues == {2, 100}

\* GET /api/reports/player/{username}
get_player_reputation(username, readOk) ==
    /\ view = NoView
    /\ LET loaded == load_reports(file, readOk)
           username_lower == Lower(username)
       IN IF username_lower \notin DOMAIN loaded.reputation
          THEN view' = [op |-> "get_reputation", request |-> username, readOk |-> readOk,
                        found |-> FALSE, username |-> username]
          ELSE LET rep == loaded.reputation[username_lower]
               IN view' = [op |-> "get_reputation", request |-> username,
                           readOk |-> readOk,
                           found |-> TRUE,
                           username |-> rep.username,
                           total_reports |-> rep.total_reports,
                           average_risk_score |-> Round2(rep.average_risk_score),
                           confidence_level |-> rep.confidence_level,
                           first_reported |-> rep.first_reported,
                           last_reported |-> rep.last_reported,
                           report_count_by_format |-> rep.formats,
                           is_banned |-> rep.is_banned]
    /\ UNCHANGED <<file, data, last, now, acked, probe>>

\* GET /api/reports/search
search_suspicious_players(min_reports, min_risk_score, confidence, limit, readOk) ==
    /\ view = NoView
    /\ LET loaded == load_reports(file, readOk)
           body == SearchResponse(loaded, min_reports, min_risk_score, confidence, limit)
       IN view' = [op |-> "search", readOk |-> readOk,
                   min_reports |-> min_reports, min_risk_score |-> min_risk_score,
                   confidence |-> confidence, limit |-> limit,
                   total_found |-> body.total_found, players |-> body.players]
    /\ UNCHANGED <<file, data, last, now, acked, probe>>

\* GET /api/statistics/global. The clock of the model counts requests, so the
\* two counts of reports of the last day and week are left out of the body.
get_global_statistics(readOk) ==
    /\ view = NoView
    /\ LET loaded == load_reports(file, readOk)
           keys == Items(loaded)
           top_players == SortDesc([i \in 1..Len(keys) |->
                                       TopEntry(loaded.reputation[keys[i]])])
       IN view' = [op |-> "statistics", readOk |-> readOk,
                   total_reports |-> Len(loaded.reports),
                   total_unique_players |-> Cardinality(DOMAIN loaded.reputation),
                   total_confirmed_cheaters |-> ConfirmedCount(loaded),
                   top_reported_players |-> Take(top_players, TopLimit)]
    /\ UNCHANGED <<file, data, last, now, acked, probe>>

\* POST /api/reports/submit with its validation: a body that fails a Field
\* never reaches the handler
post_report(username, risk_score, game_format, notes, readOk, writeOk) ==
    /\ view = NoView
    /\ IF Valid(username, risk_score, game_format, notes)
       THEN /\ now < MaxFullOps
            /\ submit_report(username, risk_score, game_format, readOk, writeOk)
       ELSE /\ view' = [op |-> "submit_report", username |-> username,
                        risk_score |-> risk_score, game_format |-> game_format,
                        notes |-> notes, status |-> Unprocessable]
            /\ UNCHANGED <<file, data, last, now, acked, probe>>

\* POST /api/admin/mark-banned/{username}
post_mark_banned(username, banned, readOk, writeOk) ==
    /\ view = NoView
    /\ now < MaxFullOps
    /\ mark_player_banned(username, banned, readOk, writeOk)

\* the response has been sent
Respond ==
    /\ view # NoView
    /\ view' = NoView
    /\ UNCHANGED <<file, data, last, now, acked, probe>>

-----------------------------------------------------------------------------
(* The service with all its handlers, started on the document one of         *)
(* Histories left behind: each is a sequence of submissions <<"submit",      *)
(* username, risk_score, game_format>> and of <<"ban", username, banned>>,   *)
(* replayed with the functions of the handlers.                              *)

\* the members of a crowd of players: <<"P","a">>, <<"P","b">>, ...
Letters == <<"a", "b", "c", "d", "e", "f", "g", "h", "i", "j", "k">>
Crowd == [i \in 1..Len(Letters) |-> <<"P", Letters[i]>>]

RECURSIVE Repeat(_, _)
Repeat(step, n) == IF n = 0 THEN <<>> ELSE <<step>> \o Repeat(step, n - 1)

\* every member of the crowd reported one to three times, odd members at 90
RECURSIVE CrowdHistory(_)
CrowdHistory(i) ==
    IF i = 0 THEN <<>>
    ELSE CrowdHistory(i - 1)
            \o Repeat(<<"submit", Crowd[i], IF i % 2 = 1 THEN 90 ELSE 50, "blitz">>,
                      1 + (i % 3))

Histories ==
    {<<>>,
     <<<<"submit", foo, 50, "blitz">>, <<"submit", foo, 50, "blitz">>,
       <<"submit", foo, 75, "rapid">>>>,
     Repeat(<<"submit", foo, 90, "bullet">>, 9) \o <<<<"submit", Foo, 50, "blitz">>>>,
     Repeat(<<"submit", Foo, 90, "blitz">>, 4)
        \o <<<<"ban", foo, TRUE>>, <<"ban", FOO, FALSE>>,
             <<"submit", Bob, 50, "rapid">>, <<"ban", Bob, TRUE>>,
             <<"submit", Bob, 50, "rapid">>, <<"submit", foo, 90, "bullet">>>>
        \o Repeat(<<"submit", Crowd[1], 90, "blitz">>, 10),
     CrowdHistory(Len(Crowd)) \o <<<<"submit", Crowd[5], 90, "rapid">>>>}

RECURSIVE Replay(_)
Replay(h) ==
    IF h = <<>> THEN EmptyState
    ELSE LET d == Replay(SubSeq(h, 1, Len(h) - 1))
             step == h[Len(h)]
         IN IF step[1] = "submit"
            THEN SubmitData(d, ReportDict(step[2], step[3], step[4], 0))
            ELSE MarkBannedData(d, Lower(step[2]), step[3])

InitFull ==
    /\ \E h \in Histories :
          /\ file = Replay(h)
          /\ acked = [key \in Keys |->
                         Cardinality({i \in 1..Len(h) :
                            h[i][1] = "submit" /\ Lower(h[i][2]) = key})]
    /\ data = file
    /\ last = NoRequest
    /\ now = 0
    /\ probe = NoProbe
    /\ view = NoView

NextFull ==
    \/ \E r \in Posts, readOk \in BOOLEAN, writeOk \in BOOLEAN :
          post_report(r[1], r[2], r[3], r[4], readOk, writeOk)
    \/ \E username \in Usernames, banned \in BOOLEAN,
          readOk \in BOOLEAN, writeOk \in BOOLEAN :
          post_mark_banned(username, banned, readOk, writeOk)
    \/ \E username \in Usernames, readOk \in BOOLEAN :
          get_player_reputation(username, readOk)
    \/ \E min_reports \in MinReportsValues, min_risk_score \in MinRiskValues,
          confidence \in ConfidenceValues, limit \in LimitValues, readOk \in BOOLEAN :
          search_suspicious_players(min_reports, min_risk_score, confidence, limit, readOk)
    \/ \E readOk \in BOOLEAN : get_global_statistics(readOk)
    \/ Respond

SpecFull == InitFull /\ [][NextFull]_vars

-----------------------------------------------------------------------------
(* Properties *)

\* the aggregates of a document
Aggregates(d) == {d.reputation[k] : k \in DOMAIN d.reputation}

\* a request was served in this step
Served == now' = now + 1

\* s is a prefix of t
IsPrefix(s, t) == Len(s) <= Len(t) /\ \A i \in 1..Len(s) : s[i] = t[i]

\* the sum of f over the set S
RECURSIVE SumOf(_, _)
SumOf(f, S) ==
    IF S = {} THEN 0
    ELSE LET x == CHOOSE y \in S : TRUE IN f[x] + SumOf(f, S \ {x})

\* the level the totals of an aggregate classify to
Derived(rep) == calculate_confidence_level(rep.total_reports, rep.average_risk_score)

\* C1: every aggregate of the persisted document with is_banned = true has
\* confidence_level = confirmed.
C1_BannedIsConfirmed ==
    \A rep \in Aggregates(file) :
        rep.is_banned => rep.confidence_level = "confirmed"

\* C2: set_banned(user, true) on an unbanned aggregate of level L, followed at
\* once by set_banned(user, false), both read and saved without failure, leaves
\* the persisted aggregate with is_banned = false and the level L.
C2_UnbanRestoresLevel ==
    [][(/\ Served
        /\ last.op = "set_banned" /\ last.banned /\ last.found /\ ~last.prevBanned
        /\ last.readOk /\ last.write = "ok"
        /\ last'.op = "set_banned" /\ ~last'.banned /\ last'.found
        /\ last'.readOk /\ last'.write = "ok"
        /\ last'.key = last.key)
       => /\ ~file'.reputation[last.key].is_banned
          /\ file'.reputation[last.key].confidence_level = last.prevLevel]_vars

\* C3: set_banned(username, false) on an existing aggregate clears is_banned and
\* changes nothing else: the level stays what it was when the call began, every
\* other field, every other aggregate and the report log are as loaded; the
\* document written is that one, and the persisted report log is as before.
C3_UnbanKeepsLevel ==
    [][(Served /\ last'.op = "set_banned" /\ ~last'.banned /\ last'.found)
       => LET loaded == load_reports(file, last'.readOk)
              k == last'.key
          IN /\ DOMAIN data'.reputation = DOMAIN loaded.reputation
             /\ data'.reputation[k] = [loaded.reputation[k] EXCEPT !.is_banned = FALSE]
             /\ data'.reputation[k].confidence_level = last'.prevLevel
             /\ \A o \in DOMAIN loaded.reputation \ {k} :
                    data'.reputation[o] = loaded.reputation[o]
             /\ data'.reports = loaded.reports
             /\ last'.write = "ok" => file' = data'
             /\ last'.write = "failed" => file' = file]_vars

\* C3 happens: a ban was lifted and saved, and the aggregate keeps the level
\* confirmed although its totals classify lower.
C3_Witness ==
    /\ last.op = "set_banned" /\ ~last.banned /\ last.found /\ last.prevBanned
    /\ last.write = "ok" /\ last.readOk
    /\ ~file.reputation[last.key].is_banned
    /\ file.reputation[last.key].confidence_level = "confirmed"
    /\ Derived(file.reputation[last.key]) # "confirmed"

\* C4: set_banned on a username without aggregate fails with the not-found
\* outcome (404, not the 500 of an internal failure), creates no aggregate and
\* leaves the persisted document unchanged.
C4_NotFoundIsDistinct ==
    [][(Served /\ last'.op = "set_banned" /\ ~last'.found)
       => /\ last'.status = 404
          /\ last'.key \notin DOMAIN data'.reputation
          /\ file' = file]_vars

\* C5: a request whose write fails does not return success, and the persisted
\* document is unchanged.
C5_FailedWriteFails ==
    [][(Served /\ last'.write = "failed")
       => last'.status # 200 /\ file' = file]_vars

\* C6: the persisted report log only grows: before every step it is a prefix of
\* what it is after the step.
C6_AppendOnly == [][IsPrefix(file.reports, file'.reports)]_vars

\* C7: the persisted document accounts for every acknowledged submission: the
\* log is as long as the number of submit_report calls that returned success,
\* and each player's total_reports is the number of those for that player.
C7_NoLostUpdate ==
    /\ Len(file.reports) = SumOf(acked, Keys)
    /\ \A k \in Keys :
          acked[k] = IF k \in DOMAIN file.reputation
                     THEN file.reputation[k].total_reports ELSE 0

\* C8: for every aggregate, the per-format counts sum to total_reports, which is
\* the length of risk_scores and at least 1.
C8_FormatCountsSum ==
    \A rep \in Aggregates(file) \cup Aggregates(data) :
        LET count(g) == IF g \in DOMAIN rep.formats THEN rep.formats[g] ELSE 0
        IN /\ DOMAIN rep.formats \subseteq Formats
           /\ count("bullet") + count("blitz") + count("rapid") = rep.total_reports
           /\ rep.total_reports = Len(rep.risk_scores)
           /\ rep.total_reports >= 1

\* C8 happens: a submission was folded into an aggregate that already counted
\* another format, and saved.
C8_Witness ==
    /\ last.op = "submit_report" /\ last.found /\ last.write = "ok"
    /\ Cardinality(DOMAIN file.reputation[last.key].formats) >= 2
    /\ file.reputation[last.key].total_reports >= 3

\* C9: the level is confirmed iff n >= 10 and a >= 80; otherwise high iff n >= 5
\* and a >= 70; otherwise medium iff n >= 3 and a >= 60; otherwise low.
C9_ClassificationTable ==
    LET n == probe.n
        a == probe.avg
        c == n >= 10 /\ a.num >= 80 * a.den
        h == n >= 5 /\ a.num >= 70 * a.den
        m == n >= 3 /\ a.num >= 60 * a.den
    IN probe.level # "none"
          => /\ probe.level = "confirmed" <=> c
             /\ probe.level = "high" <=> (~c /\ h)
             /\ probe.level = "medium" <=> (~c /\ ~h /\ m)
             /\ probe.level = "low" <=> (~c /\ ~h /\ ~m)

\* C9 happens: the first matching row decides: enough reports for confirmed,
\* an average below its threshold, and the level is high.
C9_Witness ==
    /\ probe.n >= 10
    /\ probe.avg.num < 80 * probe.avg.den
    /\ probe.level = "high"

\* C10: the classification is monotone: with a report count and an average
\* that are no smaller, the level is no lower.
C10_Monotone ==
    [][(probe.level # "none" /\ probe.n <= probe'.n /\ RatLeq(probe.avg, probe'.avg))
       => Rank(probe.level) <= Rank(probe'.level)]_vars

\* C10 happens: a second application, on inputs no smaller, moved the level from
\* low to confirmed.
C10_Witness ==
    /\ probe.prev = "low"
    /\ probe.level = "confirmed"

\* two usernames differ in letter case only
CaseEq(a, b) ==
    Len(a) = Len(b) /\ \A i \in 1..Len(a) : LowerChar(a[i]) = LowerChar(b[i])

\* the reports of the log of d whose username is k up to letter case, in order
ReportsOf(d, k) == SelectSeq(d.reports, LAMBDA r : CaseEq(r.username, k))

\* the float sum(rep["risk_scores"]) / len(rep["risk_scores"]) stored in rep
StoredAverage(rep) == FloatDiv(rep.average_risk_score.num, rep.average_risk_score.den)

\* C12 as stated: after every successful submit_report the display username of
\* the affected aggregate is the username of that report.
C12_DisplayIsLatest ==
    [][(Served /\ last'.op = "submit_report")
       => data'.reputation[last'.key].username = last'.username]_vars

\* C12: the display username is the casing that created the aggregate: a
\* submit_report for a new player sets it to the username of the report, one for
\* an existing player leaves it as loaded, and in the resulting document every
\* aggregate shows the username of the first report of the log for its key.
C12_DisplayIsFirst ==
    [][(Served /\ last'.op = "submit_report")
       => LET loaded == load_reports(file, last'.readOk)
              k == last'.key
          IN /\ data'.reputation[k].username =
                    IF last'.found THEN loaded.reputation[k].username
                    ELSE last'.username
             /\ \A o \in DOMAIN data'.reputation :
                    data'.reputation[o].username = ReportsOf(data', o)[1].username
             /\ last'.write = "ok" => file' = data']_vars

\* C12 happens: a report under another casing was folded into an existing
\* aggregate and saved, and the display username is not that of the report.
C12_Witness ==
    /\ last.op = "submit_report" /\ last.found /\ last.readOk /\ last.write = "ok"
    /\ file.reputation[last.key].username # last.username
    /\ CaseEq(file.reputation[last.key].username, last.username)

\* the levels after each of the reports 50, 50, 75, 90 of one new player
ExampleLevels ==
    LET d1 == SubmitData(EmptyState, ReportDict(Bob, 50, "blitz", 1))
        d2 == SubmitData(d1, ReportDict(Bob, 50, "blitz", 2))
        d3 == SubmitData(d2, ReportDict(Bob, 75, "blitz", 3))
        d4 == SubmitData(d3, ReportDict(Bob, 90, "blitz", 4))
    IN [i \in 1..4 |-> (<<d1, d2, d3, d4>>[i]).reputation[Lower(Bob)].confidence_level]

\* C17: after a submit_report for a player who is not banned (banned before and
\* unbanned since included) the stored level is the classification of the
\* stored total_reports and average_risk_score, the response carries the stored
\* total_reports and level, and a write that succeeds persists them; the scores
\* 50, 50, 75, 90 of a new player give low, low, low, medium.
C17_LevelIsDerived ==
    [][(Served /\ last'.op = "submit_report" /\ ~data'.reputation[last'.key].is_banned)
       => LET rep == data'.reputation[last'.key]
              n == rep.total_reports
              a == rep.average_risk_score
              level == IF n >= 10 /\ a.num >= 80 * a.den THEN "confirmed"
                       ELSE IF n >= 5 /\ a.num >= 70 * a.den THEN "high"
                       ELSE IF n >= 3 /\ a.num >= 60 * a.den THEN "medium"
                       ELSE "low"
          IN /\ rep.confidence_level = level
             /\ last'.total_reports = rep.total_reports
             /\ last'.confidence_level = rep.confidence_level
             /\ last'.write = "ok" => file'.reputation[last'.key] = rep
             /\ ExampleLevels = <<"low", "low", "low", "medium">>]_vars

\* C17 happens: a player was banned, then unbanned (the level staying
\* confirmed), then reported again, and the saved level is the lower one the
\* totals classify to.
C17_Witness ==
    /\ last.op = "submit_report" /\ last.found /\ last.readOk /\ last.write = "ok"
    /\ ~last.prevBanned /\ last.prevLevel = "confirmed"
    /\ file.reputation[last.key].confidence_level # "confirmed"
    /\ ~file.reputation[last.key].is_banned

C19_SubmitFrame ==
    [][(Served /\ last'.op = "submit_report")
       => LET loaded == load_reports(file, last'.readOk)
              k == last'.key
              rep == data'.reputation[k]
              report == data'.reports[Len(data'.reports)]
          IN /\ Len(data'.reports) = Len(loaded.reports) + 1
             /\ IsPrefix(loaded.reports, data'.reports)
             /\ CaseEq(report.username, k)
             /\ DOMAIN data'.reputation = DOMAIN loaded.reputation \cup {k}
             /\ last'.found <=> k \in DOMAIN loaded.reputation
             /\ last'.found
                   => /\ rep.total_reports = loaded.reputation[k].total_reports + 1
                      /\ rep.is_banned = loaded.reputation[k].is_banned
                      /\ rep.first_reported = loaded.reputation[k].first_reported
             /\ ~last'.found
                   => /\ rep.total_reports = 1
                      /\ ~rep.is_banned
                      /\ rep.first_reported = report.timestamp
             /\ rep.last_reported = report.timestamp
             /\ \A o \in DOMAIN loaded.reputation \ {k} :
                    data'.reputation[o] = loaded.reputation[o]
             /\ last'.write = "ok" => file' = data']_vars

\* C19 happens: a report was folded into the aggregate of a banned player while
\* another player had an aggregate, and saved; the player is still banned and
\* first_reported is older than the report.
C19_Witness ==
    /\ last.op = "submit_report" /\ last.found /\ last.readOk /\ last.write = "ok"
    /\ last.prevBanned
    /\ file.reputation[last.key].is_banned
    /\ file.reputation[last.key].first_reported < file.reputation[last.key].last_reported
    /\ Cardinality(DOMAIN file.reputation) >= 2

\* C20: in every persisted document the report log is as long as the sum of
\* total_reports over the aggregates.
C20_LogLengthIsTotal ==
    Len(file.reports) =
        SumOf([k \in DOMAIN file.reputation |-> file.reputation[k].total_reports],
              DOMAIN file.reputation)

\* C20 happens: a submission that loaded the empty fallback was saved over a
\* document that held more reports, and two players have aggregates.
C20_Witness ==
    /\ last.op = "submit_report" /\ last.write = "ok"
    /\ Cardinality(DOMAIN file.reputation) >= 2
    /\ Len(file.reports) < SumOf(acked, Keys)
    /\ Len(file.reports) >= 2

\* the keys of d that are username up to letter case
KeysOf(d, username) == {k \in DOMAIN d.reputation : CaseEq(username, k)}

\* C11: in the persisted document and in the one a POST handler held, every
\* key is in lower case, every report has exactly one aggregate whose key is
\* its username up to letter case, every aggregate has such a report and holds
\* the scores of exactly those reports; get_reputation finds an aggregate iff
\* one has the requested username up to case, and answers from it; set_banned
\* finds and marks that one. (The documents are examined where no response is
\* on its way: returning one changes neither.)
C11_CaseInsensitiveIdentity ==
    /\ view = NoView
          => \A d \in {file, data} :
                /\ \A k \in DOMAIN d.reputation :
                      LET folded == ReportsOf(d, k)
                      IN /\ \A i \in 1..Len(k) : LowerChar(k[i]) = k[i]
                         /\ folded # <<>>
                         /\ d.reputation[k].risk_scores =
                               [i \in 1..Len(folded) |-> folded[i].risk_score]
                /\ \A username \in {d.reports[i].username : i \in 1..Len(d.reports)} :
                      Cardinality(KeysOf(d, username)) = 1
    /\ view.op = "get_reputation"
          => LET loaded == load_reports(file, view.readOk)
                 ks == KeysOf(loaded, view.request)
             IN /\ view.found <=> ks # {}
                /\ view.found
                      => \A k \in ks :
                            /\ view.username = loaded.reputation[k].username
                            /\ view.total_reports = loaded.reputation[k].total_reports
                            /\ view.is_banned = loaded.reputation[k].is_banned
                            /\ view.confidence_level = loaded.reputation[k].confidence_level
    /\ last.op = "set_banned"
          => /\ last.found <=> KeysOf(data, last.username) # {}
             /\ \A k \in KeysOf(data, last.username) :
                    k = last.key /\ data.reputation[k].is_banned = last.banned

\* C11 happens: the log holds reports for Foo and for foo, and get_reputation
\* asked for Foo answers from the one aggregate that counts them all.
C11_Witness ==
    /\ view.op = "get_reputation" /\ view.found /\ view.readOk
    /\ view.request = Foo
    /\ \E i, j \in 1..Len(file.reports) :
          file.reports[i].username = Foo /\ file.reports[j].username = foo
    /\ view.total_reports = Len(ReportsOf(file, foo))
    /\ Cardinality(DOMAIN file.reputation) >= 2

\* C13: the aggregates a search matches are those with total_reports >=
\* min_reports, average_risk_score >= min_risk_score and, with a filter, that
\* level; total_found is their number, the players returned are entries of
\* matching aggregates, all of them when limit allows; a search with a larger
\* min_reports and the other parameters equal finds no more.
C13_SearchFilter ==
    view.op = "search"
       => LET loaded == load_reports(file, view.readOk)
              matching ==
                  {k \in DOMAIN loaded.reputation :
                      /\ loaded.reputation[k].total_reports >= view.min_reports
                      /\ loaded.reputation[k].average_risk_score.num
                            >= view.min_risk_score * loaded.reputation[k].average_risk_score.den
                      /\ view.confidence = "none"
                            \/ loaded.reputation[k].confidence_level = view.confidence}
              named == {loaded.reputation[k].username : k \in matching}
              returned == {view.players[i].username : i \in 1..Len(view.players)}
          IN /\ view.total_found = Cardinality(matching)
             /\ returned \subseteq named
             /\ Cardinality(returned) = Len(view.players)
             /\ view.limit >= view.total_found => returned = named
             /\ \A m \in MinReportsValues :
                    m >= view.min_reports
                       => SearchResponse(loaded, m, view.min_risk_score,
                                         view.confidence, view.limit).total_found
                             <= view.total_found

\* C13 happens: a search with a level filter matched some aggregates and left
\* out others, one of them for its report count alone.
C13_Witness ==
    /\ view.op = "search" /\ view.readOk
    /\ view.confidence # "none"
    /\ view.total_found >= 1
    /\ view.total_found < Cardinality(DOMAIN file.reputation)
    /\ \E k \in DOMAIN file.reputation :
          /\ file.reputation[k].total_reports < view.min_reports
          /\ file.reputation[k].confidence_level = view.confidence
          /\ RatGeq(file.reputation[k].average_risk_score, view.min_risk_score)

\* players is limit entries or all that were found, ordered by total_reports
\* from large to small, and no entry of pool left out has more reports than
\* one returned
Truncated(players, limit, found, pool) ==
    /\ Len(players) = IF limit < found THEN limit ELSE found
    /\ \A i, j \in 1..Len(players) :
          i <= j => players[i].total_reports >= players[j].total_reports
    /\ \A rep \in pool :
          (\A i \in 1..Len(players) : players[i].username # rep.username)
             => \A i \in 1..Len(players) : rep.total_reports <= players[i].total_reports

\* C14: the players of a search are min(limit, total_found) entries ordered by
\* total_reports non-increasing, and no matching aggregate left out has more
\* reports than a returned one; top_reported_players is the same over all
\* aggregates with the limit 10.
C14_SortedTruncation ==
    /\ view.op = "search"
          => LET loaded == load_reports(file, view.readOk)
             IN Truncated(view.players, view.limit, view.total_found,
                          {rep \in Aggregates(loaded) :
                              Matches(rep, view.min_reports, view.min_risk_score,
                                      view.confidence)})
    /\ view.op = "statistics"
          => LET loaded == load_reports(file, view.readOk)
             IN Truncated(view.top_reported_players, 10,
                          Cardinality(DOMAIN loaded.reputation), Aggregates(loaded))

\* C14 happens: a search returned two entries with different report counts and
\* left matching aggregates out.
C14_Witness ==
    /\ view.op = "search" /\ view.readOk
    /\ view.limit = 2 /\ view.total_found > 3
    /\ view.players[1].total_reports > view.players[2].total_reports

\* C15: global_statistics counts as confirmed cheaters the aggregates with the
\* level confirmed or with is_banned, each once; as unique players the
\* aggregates; as total_reports the length of the report log.
C15_Statistics ==
    view.op = "statistics"
       => LET loaded == load_reports(file, view.readOk)
          IN /\ view.total_confirmed_cheaters =
                    Cardinality({rep \in Aggregates(loaded) :
                                    rep.confidence_level = "confirmed" \/ rep.is_banned})
             /\ view.total_unique_players = Cardinality(Aggregates(loaded))
             /\ view.total_reports = Len(loaded.reports)

\* C15 happens: the statistics count a banned aggregate whose level is low
\* beside one that is confirmed without a ban and one that is neither.
C15_Witness ==
    /\ view.op = "statistics" /\ view.readOk
    /\ \E rep \in Aggregates(file) : rep.is_banned /\ rep.confidence_level = "low"
    /\ \E rep \in Aggregates(file) : ~rep.is_banned /\ rep.confidence_level = "confirmed"
    /\ view.total_confirmed_cheaters >= 2
    /\ view.total_confirmed_cheaters < view.total_unique_players

\* C16: a step that posts a report with a risk_score outside 0..100, a
\* game_format other than bullet, blitz, rapid, a username shorter than 2 or
\* longer than 25, or notes longer than 500 is a rejection, and leaves the
\* persisted document and the one in memory as they were.
C16_RejectedUnchanged ==
    [][\A r \in Posts, readOk \in BOOLEAN, writeOk \in BOOLEAN :
          (/\ \/ r[2] < 0 \/ r[2] > 100
              \/ r[3] \notin {"bullet", "blitz", "rapid"}
              \/ Len(r[1]) < 2 \/ Len(r[1]) > 25
              \/ r[4] > 500
           /\ post_report(r[1], r[2], r[3], r[4], readOk, writeOk))
             => /\ view'.op = "submit_report"
                /\ view'.status \in 400..499
                /\ file' = file
                /\ data' = data
                /\ last' = last]_vars

\* C16 happens: a report with a risk_score above 100 was rejected while the
\* document holds reports and aggregates.
C16_Witness ==
    /\ view.op = "submit_report" /\ view.status = 422
    /\ view.risk_score > 100
    /\ file.reports # <<>>
    /\ data = file

====
